---- MODULE Spec2Model ----
(***************************************************************************)
(* Real Estate Management API (src/main.py, src/schemas.py): the four      *)
(* document collections, the request handlers that read and write them,    *)
(* and the properties the specification states about them.                 *)
(*                                                                         *)
(* A handler that performs several store operations (register,             *)
(* create_property, create_message, create_payment) is one action per      *)
(* store operation, run by a worker of the pool; a handler with a single   *)
(* store operation is one action.  resp is the HTTP response produced by   *)
(* the latest step (op = "none" when the step completed no request).       *)
(***************************************************************************)
EXTENDS Integers, Sequences, FiniteSets, TLC

VARIABLES users, properties, messages, payments, nextId, pc, resp

vars == <<users, properties, messages, payments, nextId, pc, resp>>

(***************************************************************************)
(* Bounds of the model.                                                    *)
(***************************************************************************)
\* Identifiers the store generates in one run.
MaxDocs == 2
\* Readings of the wall clock are drawn from 1..MaxTime.
MaxTime == 1

Times == 1..MaxTime

\* The worker pool serving requests concurrently.
Workers == {"w1", "w2"}

(***************************************************************************)
(* Optional values: None is the empty set, Some(v) the singleton.          *)
(***************************************************************************)
None == {}
Some(v) == {v}
TheVal(o) == CHOOSE v \in o : TRUE

(***************************************************************************)
(* Identifiers.  An ObjectId is 12 bytes; its canonical string is 24       *)
(* lower-case hex digits; ObjectId(str) accepts 24 hex digits of either    *)
(* case and nothing else.  Strings are sequences of characters.            *)
(***************************************************************************)
OidBytes == 12
OidHexLen == 24

HexLower == <<"0", "1", "2", "3", "4", "5", "6", "7", "8", "9",
              "a", "b", "c", "d", "e", "f">>
HexUpper == <<"0", "1", "2", "3", "4", "5", "6", "7", "8", "9",
              "A", "B", "C", "D", "E", "F">>

\* The value of each hex digit, of either case.
HexTable ==
    [c \in {HexLower[i] : i \in 1..16} \cup {HexUpper[i] : i \in 1..16} |->
        (CHOOSE i \in 1..16 : HexLower[i] = c \/ HexUpper[i] = c) - 1]

IsHex(c) == c \in DOMAIN HexTable
HexVal(c) == HexTable[c]

\* bson.ObjectId.is_valid on a str
ObjectIdValid(s) == Len(s) = OidHexLen /\ \A i \in 1..Len(s) : IsHex(s[i])

\* ObjectId(id_str) for a valid string: two hex digits per byte
ParseOid(s) == [i \in 1..OidBytes |-> 16 * HexVal(s[2 * i - 1]) + HexVal(s[2 * i])]

\* str(ObjectId): lower-case hex
StrOid(o) ==
    [i \in 1..OidHexLen |->
        IF i % 2 = 1 THEN HexLower[(o[(i + 1) \div 2] \div 16) + 1]
                     ELSE HexLower[(o[i \div 2] % 16) + 1]]

\* to_object_id: Some(ObjectId), or None when HTTPException(400) is raised
to_object_id(s) == IF ObjectIdValid(s) THEN Some(ParseOid(s)) ELSE None

\* The n-th identifier the store generates in a run (first byte 0xab, last byte n).
GenOid(n) == [i \in 1..OidBytes |-> IF i = 1 THEN 171 ELSE IF i = OidBytes THEN n ELSE 0]

\* The identifier of the k-th document stored before the run (first byte 0xaa).
OldOid(k) == [i \in 1..OidBytes |-> IF i = 1 THEN 170 ELSE IF i = OidBytes THEN k ELSE 0]

\* ObjectIds are ordered as their bytes are.
OidLess(a, b) ==
    \E i \in 1..OidBytes : a[i] < b[i] /\ \A j \in 1..(i - 1) : a[j] = b[j]

\* The same identifier written with upper-case hex digits.
UpperStr(s) == [i \in 1..Len(s) |-> HexUpper[HexVal(s[i]) + 1]]

\* Malformed identifier strings: empty, too short, 24 characters with a non-hex one.
EmptyStr == <<>>
ShortStr == <<"a", "b">>
NonHexStr == [i \in 1..OidHexLen |-> IF i = 1 THEN "g" ELSE "0"]

(***************************************************************************)
(* The document store.                                                     *)
(***************************************************************************)
\* update_one's {"$set": upd} on one document
SetFields(doc, upd) ==
    [f \in DOMAIN doc \cup DOMAIN upd |-> IF f \in DOMAIN upd THEN upd[f] ELSE doc[f]]

\* now_utc(): a reading of the wall clock
now_utc == Times

\* unique_index("user", "email"); unique_index("user", "mobile")
UserUniqueFields_EmailOnly == {"email"}
UserUniqueFields == {"email", "mobile"}

\* insert_one under the unique indexes: DuplicateKeyError
DuplicateKey(doc) ==
    \E o \in DOMAIN users : \E f \in UserUniqueFields : users[o][f] = doc[f]

\* create_document(collection, model): the collection with the model's fields
\* stored under a newly generated identifier
create_document(store, doc) == (GenOid(nextId) :> doc) @@ store

NoResp == [op |-> "none"]
Idle == [op |-> "idle"]

(***************************************************************************)
(* Auth                                                                    *)
(***************************************************************************)
\* sha256(password.encode()).hexdigest()
Digest(p) ==
    CASE p = "secret" -> "2bb80d537b1da3e38bd30361aa855686bde0eacd7162fef6a25fe97bf527a25b"
      [] p = "hunter2" -> "f52fbd32b2b3b86ff88ef6c490628285f482af15ddcb29541f94bcf526a3f6c7"

\* register, first store operation: find_one({"$or": [email, mobile]})
RegisterFind(w, req) ==
    /\ pc[w].op = "idle"
    /\ LET existing == {o \in DOMAIN users :
                          users[o].email = req.email \/ users[o].mobile = req.mobile}
       IN IF existing # {}
          THEN /\ resp' = [op |-> "register", code |-> 409]
               /\ pc' = pc
          ELSE /\ resp' = NoResp
               /\ pc' = [pc EXCEPT ![w] = [op |-> "register", req |-> req]]
    /\ UNCHANGED <<users, properties, messages, payments, nextId>>

\* register, second store operation: create_document("user", User(...))
RegisterInsert(w) ==
    /\ pc[w].op = "register"
    /\ LET req == pc[w].req
           user == [full_name |-> req.full_name, email |-> req.email,
                    mobile |-> req.mobile, password_hash |-> Digest(req.password),
                    role |-> req.role, status |-> "ACTIVE"]
       IN IF DuplicateKey(user)
          THEN /\ resp' = [op |-> "register", code |-> 500]
               /\ UNCHANGED <<users, nextId>>
          ELSE /\ nextId <= MaxDocs
               /\ users' = create_document(users, user)
               /\ nextId' = nextId + 1
               /\ resp' = [op |-> "register", code |-> 200,
                           id |-> StrOid(GenOid(nextId))]
    /\ pc' = [pc EXCEPT ![w] = Idle]
    /\ UNCHANGED <<properties, messages, payments>>

\* login's filter {"email": req.email, "status": "ACTIVE"}
LoginFilter_EmailOnly(u, req) == u.email = req.email
LoginFilter(u, req) == u.email = req.email /\ u.status = "ACTIVE"

\* login
Login(req) ==
    /\ LET found == {o \in DOMAIN users : LoginFilter(users[o], req)}
       IN IF found = {}
          THEN resp' = [op |-> "login", code |-> 401, req |-> req]
          ELSE \E o \in found :
                 IF users[o].password_hash # Digest(req.password)
                 THEN resp' = [op |-> "login", code |-> 401, req |-> req]
                 ELSE resp' = [op |-> "login", code |-> 200, req |-> req,
                               body |-> [id |-> StrOid(o),
                                         full_name |-> users[o].full_name,
                                         email |-> users[o].email,
                                         mobile |-> users[o].mobile,
                                         role |-> users[o].role]]
    /\ UNCHANGED <<users, properties, messages, payments, nextId, pc>>

\* admin_update_user_status
AdminUpdateUserStatus(user_id, status, t) ==
    /\ t \in now_utc
    /\   LET oid == to_object_id(user_id)
         IN IF oid = None
            THEN /\ resp' = [op |-> "admin_update_user_status", code |-> 400,
                             ids |-> {user_id}, ops |-> 0]
                 /\ users' = users
            ELSE IF TheVal(oid) \notin DOMAIN users
            THEN /\ resp' = [op |-> "admin_update_user_status", code |-> 404,
                             ids |-> {user_id}, ops |-> 1]
                 /\ users' = users
            ELSE /\ users' = [users EXCEPT ![TheVal(oid)] =
                                SetFields(@, ("status" :> status) @@ ("updated_at" :> t))]
                 /\ resp' = [op |-> "admin_update_user_status", code |-> 200,
                             ids |-> {user_id}, ops |-> 1]
    /\ UNCHANGED <<properties, messages, payments, nextId, pc>>

(***************************************************************************)
(* Property catalog.  A property document carries owner_id, title,         *)
(* property_type, price, city, verified and status; the remaining fields   *)
(* of schemas.Property are stored and updated exactly as city and price    *)
(* are.  Text is a sequence of characters.                                 *)
(***************************************************************************)
\* create_property, first store operation: find_one on the owner
CreatePropertyFind(w, req) ==
    /\ pc[w].op = "idle"
    /\ LET oid == to_object_id(req.owner_id)
       IN IF oid = None
          THEN /\ resp' = [op |-> "create_property", code |-> 400,
                           ids |-> {req.owner_id}, ops |-> 0]
               /\ pc' = pc
          ELSE IF TheVal(oid) \notin DOMAIN users
          THEN /\ resp' = [op |-> "create_property", code |-> 404,
                           ids |-> {req.owner_id}, ops |-> 1]
               /\ pc' = pc
          ELSE /\ resp' = NoResp
               /\ pc' = [pc EXCEPT ![w] = [op |-> "create_property", req |-> req]]
    /\ UNCHANGED <<users, properties, messages, payments, nextId>>

\* create_property, second store operation: create_document("property", req)
CreatePropertyInsert(w) ==
    /\ pc[w].op = "create_property"
    /\ nextId <= MaxDocs
    /\ properties' = create_document(properties, pc[w].req)
    /\ nextId' = nextId + 1
    /\ resp' = [op |-> "create_property", code |-> 200,
                ids |-> {pc[w].req.owner_id}, ops |-> 2, id |-> StrOid(GenOid(nextId))]
    /\ pc' = [pc EXCEPT ![w] = Idle]
    /\ UNCHANGED <<users, messages, payments>>

\* d["id"] = str(d.pop("_id"))
PublicDoc(o, d) == ("id" :> StrOid(o)) @@ d

\* get_property
GetProperty(property_id) ==
    /\ LET oid == to_object_id(property_id)
       IN IF oid = None
          THEN resp' = [op |-> "get_property", code |-> 400,
                        ids |-> {property_id}, ops |-> 0]
          ELSE IF TheVal(oid) \notin DOMAIN properties
          THEN resp' = [op |-> "get_property", code |-> 404,
                        ids |-> {property_id}, ops |-> 1]
          ELSE resp' = [op |-> "get_property", code |-> 200,
                        ids |-> {property_id}, ops |-> 1,
                        body |-> PublicDoc(TheVal(oid), properties[TheVal(oid)])]
    /\ UNCHANGED <<users, properties, messages, payments, nextId, pc>>

\* body.model_dump(exclude_none=True): the fields of the body that are not null
\* (a body maps each field it names to None or Some(value))
DumpExcludeNone(body) ==
    [f \in {g \in DOMAIN body : body[g] # None} |-> TheVal(body[f])]

\* update_property: the $set document, update["updated_at"] = now_utc()
UpdateDoc_NoTimestamp(update, t) == update
UpdateDoc(update, t) == ("updated_at" :> t) @@ update

\* update_property
UpdateProperty(property_id, body, t) ==
    /\ t \in now_utc
    /\ LET update == DumpExcludeNone(body)
           oid == to_object_id(property_id)
       IN IF DOMAIN update = {}
          THEN /\ resp' = [op |-> "update_property", code |-> 400,
                           ids |-> {property_id}, ops |-> 0]
               /\ properties' = properties
          ELSE IF oid = None
          THEN /\ resp' = [op |-> "update_property", code |-> 400,
                           ids |-> {property_id}, ops |-> 0]
               /\ properties' = properties
          ELSE IF TheVal(oid) \notin DOMAIN properties
          THEN /\ resp' = [op |-> "update_property", code |-> 404,
                           ids |-> {property_id}, ops |-> 1]
               /\ properties' = properties
          ELSE /\ properties' = [properties EXCEPT ![TheVal(oid)] =
                                    SetFields(@, UpdateDoc(update, t))]
               /\ resp' = [op |-> "update_property", code |-> 200,
                           ids |-> {property_id}, ops |-> 1]
    /\ UNCHANGED <<users, messages, payments, nextId, pc>>

\* delete_property
DeleteProperty(property_id) ==
    /\ LET oid == to_object_id(property_id)
       IN IF oid = None
          THEN /\ resp' = [op |-> "delete_property", code |-> 400,
                           ids |-> {property_id}, ops |-> 0]
               /\ properties' = properties
          ELSE IF TheVal(oid) \notin DOMAIN properties
          THEN /\ resp' = [op |-> "delete_property", code |-> 404,
                           ids |-> {property_id}, ops |-> 1]
               /\ properties' = properties
          ELSE /\ properties' = [o \in DOMAIN properties \ {TheVal(oid)} |-> properties[o]]
               /\ resp' = [op |-> "delete_property", code |-> 200,
                           ids |-> {property_id}, ops |-> 1]
    /\ UNCHANGED <<users, messages, payments, nextId, pc>>

\* verify_property
VerifyProperty(property_id, verified, t) ==
    /\ t \in now_utc
    /\ LET oid == to_object_id(property_id)
       IN IF oid = None
          THEN /\ resp' = [op |-> "verify_property", code |-> 400,
                           ids |-> {property_id}, ops |-> 0]
               /\ properties' = properties
          ELSE IF TheVal(oid) \notin DOMAIN properties
          THEN /\ resp' = [op |-> "verify_property", code |-> 404,
                           ids |-> {property_id}, ops |-> 1]
               /\ properties' = properties
          ELSE /\ properties' = [properties EXCEPT ![TheVal(oid)] =
                                    SetFields(@, ("verified" :> verified) @@ ("updated_at" :> t))]
               /\ resp' = [op |-> "verify_property", code |-> 200,
                           ids |-> {property_id}, ops |-> 1]
    /\ UNCHANGED <<users, messages, payments, nextId, pc>>

\* Lower-casing of a character ("$options": "i")
LowerChar(c) ==
    CASE c = "A" -> "a" [] c = "G" -> "g" [] c = "O" -> "o" [] c = "P" -> "p"
      [] c = "U" -> "u" [] c = "N" -> "n" [] c = "E" -> "e"
      [] OTHER -> c

\* {"$regex": q, "$options": "i"} for a q of letters: q occurs in text, case ignored
RegexMatchI(text, q) ==
    \E k \in 0..(Len(text) - Len(q)) :
        \A i \in 1..Len(q) : LowerChar(text[k + i]) = LowerChar(q[i])

\* list_properties: filt starts as {"status": {"$ne": "INACTIVE"}}
ListStatusFilter_Missing(d) == TRUE
ListStatusFilter(d) == d.status # "INACTIVE"

\* list_properties: the conjunctive filter built from the query parameters
\* (a parameter is None or Some(value); "if city:" skips None and the empty string)
ListFilter(d, p) ==
    /\ ListStatusFilter(d)
    /\ (p.city # None /\ TheVal(p.city) # <<>>) => d.city = TheVal(p.city)
    /\ (p.property_type # None /\ TheVal(p.property_type) # "")
          => d.property_type = TheVal(p.property_type)
    /\ p.min_price # None => d.price >= TheVal(p.min_price)
    /\ p.max_price # None => d.price <= TheVal(p.max_price)
    /\ (p.q # None /\ TheVal(p.q) # <<>>)
          => (RegexMatchI(d.title, TheVal(p.q)) \/ RegexMatchI(d.city, TheVal(p.q)))

\* list_properties: sort_spec; documents with equal keys come in any order
SortedBy(sort, a, da, b, db) ==
    CASE sort = "price_asc" -> da.price <= db.price
      [] sort = "price_desc" -> da.price >= db.price
      [] OTHER -> OidLess(b, a)

Max(a, b) == IF a >= b THEN a ELSE b
Min(a, b) == IF a <= b THEN a ELSE b

\* list_properties: .skip(max(0, skip)) and .limit(min(max(1, limit), 100))
ListLimitCap == 100
SkipOf(skip) == Max(0, skip)
LimitOf(limit) == Min(Max(1, limit), ListLimitCap)

\* The orderings of a set of ObjectIds
Orderings(S) ==
    {f \in [1..Cardinality(S) -> S] : \A i, j \in 1..Cardinality(S) : i # j => f[i] # f[j]}

\* list_properties
ListProperties(p) ==
    /\ LET found == {o \in DOMAIN properties : ListFilter(properties[o], p)}
       IN \E ord \in Orderings(found) :
            /\ \A i, j \in 1..Len(ord) :
                  i < j => SortedBy(p.sort, ord[i], properties[ord[i]],
                                    ord[j], properties[ord[j]])
            /\ LET from == SkipOf(p.skip) + 1
                   to == Min(Len(ord), SkipOf(p.skip) + LimitOf(p.limit))
                   items == [i \in 1..Max(0, to - from + 1) |->
                                PublicDoc(ord[from + i - 1], properties[ord[from + i - 1]])]
               IN resp' = [op |-> "list_properties", code |-> 200, limit |-> p.limit,
                           body |-> [items |-> items, count |-> Len(items)]]
    /\ UNCHANGED <<users, properties, messages, payments, nextId, pc>>

(***************************************************************************)
(* Messaging                                                               *)
(***************************************************************************)
\* create_message: the user ids validated, in order
MessageUserIds_SenderOnly(req) == <<req.sender_id>>
MessageUserIds(req) == <<req.sender_id, req.receiver_id>>

\* "if req.property_id:" is false for None and for the empty string
Truthy(opt) == opt # None /\ TheVal(opt) # <<>>

\* The identifiers a message request supplies
MessageIds(req) == {req.sender_id, req.receiver_id} \cup req.property_id

\* create_message, the k-th user lookup (k = pc[w].k; a new request starts at 1)
MessageFindUserStep(w, req, k) ==
    LET uid == MessageUserIds(req)[k]
        oid == to_object_id(uid)
    IN /\ IF oid = None
          THEN /\ resp' = [op |-> "create_message", code |-> 400, ids |-> MessageIds(req),
                           ops |-> k - 1]
               /\ pc' = [pc EXCEPT ![w] = Idle]
          ELSE IF TheVal(oid) \notin DOMAIN users
          THEN /\ resp' = [op |-> "create_message", code |-> 404, ids |-> MessageIds(req),
                           ops |-> k, detail |-> uid]
               /\ pc' = [pc EXCEPT ![w] = Idle]
          ELSE /\ resp' = NoResp
               /\ pc' = [pc EXCEPT ![w] =
                           [op |-> "create_message", req |-> req,
                            at |-> IF k < Len(MessageUserIds(req)) THEN "find_user"
                                   ELSE IF Truthy(req.property_id) THEN "find_property"
                                   ELSE "insert",
                            k |-> k + 1]]
       /\ UNCHANGED <<users, properties, messages, payments, nextId>>

\* create_message, first store operation
MessageFindSender(w, req) ==
    /\ pc[w].op = "idle"
    /\ MessageFindUserStep(w, req, 1)

\* create_message, the next user lookup of the loop
MessageFindReceiver(w) ==
    /\ pc[w].op = "create_message" /\ pc[w].at = "find_user"
    /\ MessageFindUserStep(w, pc[w].req, pc[w].k)

\* create_message, the property lookup
MessageFindProperty(w) ==
    /\ pc[w].op = "create_message" /\ pc[w].at = "find_property"
    /\ LET req == pc[w].req
           oid == to_object_id(TheVal(req.property_id))
       IN IF oid = None
          THEN /\ resp' = [op |-> "create_message", code |-> 400, ids |-> MessageIds(req),
                           ops |-> pc[w].k - 1]
               /\ pc' = [pc EXCEPT ![w] = Idle]
          ELSE IF TheVal(oid) \notin DOMAIN properties
          THEN /\ resp' = [op |-> "create_message", code |-> 404, ids |-> MessageIds(req),
                           ops |-> pc[w].k, detail |-> <<>>]
               /\ pc' = [pc EXCEPT ![w] = Idle]
          ELSE /\ resp' = NoResp
               /\ pc' = [pc EXCEPT ![w] = [@ EXCEPT !.at = "insert", !.k = @ + 1]]
    /\ UNCHANGED <<users, properties, messages, payments, nextId>>

\* create_message, the last store operation: create_document("message", req)
MessageInsert(w) ==
    /\ pc[w].op = "create_message" /\ pc[w].at = "insert"
    /\ nextId <= MaxDocs
    /\ messages' = create_document(messages, pc[w].req)
    /\ nextId' = nextId + 1
    /\ resp' = [op |-> "create_message", code |-> 200, ids |-> MessageIds(pc[w].req),
                ops |-> pc[w].k, id |-> StrOid(GenOid(nextId))]
    /\ pc' = [pc EXCEPT ![w] = Idle]
    /\ UNCHANGED <<users, properties, payments>>

(***************************************************************************)
(* Payments                                                                *)
(***************************************************************************)
\* create_payment, first store operation: find_one on the buyer
PaymentFindBuyer(w, req) ==
    /\ pc[w].op = "idle"
    /\ LET oid == to_object_id(req.buyer_id)
       IN IF oid = None
          THEN /\ resp' = [op |-> "create_payment", code |-> 400,
                           ids |-> {req.buyer_id, req.property_id}, ops |-> 0]
               /\ pc' = pc
          ELSE IF TheVal(oid) \notin DOMAIN users
          THEN /\ resp' = [op |-> "create_payment", code |-> 404,
                           ids |-> {req.buyer_id, req.property_id}, ops |-> 1]
               /\ pc' = pc
          ELSE /\ resp' = NoResp
               /\ pc' = [pc EXCEPT ![w] =
                           [op |-> "create_payment", req |-> req, at |-> "find_property"]]
    /\ UNCHANGED <<users, properties, messages, payments, nextId>>

\* create_payment, second store operation: find_one on the property
PaymentFindProperty(w) ==
    /\ pc[w].op = "create_payment" /\ pc[w].at = "find_property"
    /\ LET req == pc[w].req
           oid == to_object_id(req.property_id)
       IN IF oid = None
          THEN /\ resp' = [op |-> "create_payment", code |-> 400,
                           ids |-> {req.buyer_id, req.property_id}, ops |-> 1]
               /\ pc' = [pc EXCEPT ![w] = Idle]
          ELSE IF TheVal(oid) \notin DOMAIN properties
          THEN /\ resp' = [op |-> "create_payment", code |-> 404,
                           ids |-> {req.buyer_id, req.property_id}, ops |-> 2]
               /\ pc' = [pc EXCEPT ![w] = Idle]
          ELSE /\ resp' = NoResp
               /\ pc' = [pc EXCEPT ![w] = [@ EXCEPT !.at = "insert"]]
    /\ UNCHANGED <<users, properties, messages, payments, nextId>>

\* create_payment, third store operation: create_document("payment", req)
PaymentInsert(w) ==
    /\ pc[w].op = "create_payment" /\ pc[w].at = "insert"
    /\ nextId <= MaxDocs
    /\ payments' = create_document(payments, pc[w].req)
    /\ nextId' = nextId + 1
    /\ resp' = [op |-> "create_payment", code |-> 200,
                ids |-> {pc[w].req.buyer_id, pc[w].req.property_id}, ops |-> 3,
                id |-> StrOid(GenOid(nextId))]
    /\ pc' = [pc EXCEPT ![w] = Idle]
    /\ UNCHANGED <<users, properties, messages>>

\* update_payment_status: the $set document
\* ("if body.provider_payment_id:" is false for None and for the empty string)
PaymentUpdate_AlwaysProviderId(status, ppid, t) ==
    ("status" :> status) @@ ("updated_at" :> t) @@ ("provider_payment_id" :> ppid)
PaymentUpdate(status, ppid, t) ==
    IF ppid # None /\ TheVal(ppid) # ""
    THEN ("status" :> status) @@ ("updated_at" :> t) @@ ("provider_payment_id" :> ppid)
    ELSE ("status" :> status) @@ ("updated_at" :> t)

\* update_payment_status
UpdatePaymentStatus(payment_id, status, ppid, t) ==
    /\ t \in now_utc
    /\ LET oid == to_object_id(payment_id)
       IN IF oid = None
          THEN /\ resp' = [op |-> "update_payment_status", code |-> 400,
                           ids |-> {payment_id}, ops |-> 0]
               /\ payments' = payments
          ELSE IF TheVal(oid) \notin DOMAIN payments
          THEN /\ resp' = [op |-> "update_payment_status", code |-> 404,
                           ids |-> {payment_id}, ops |-> 1]
               /\ payments' = payments
          ELSE /\ payments' = [payments EXCEPT ![TheVal(oid)] =
                                  SetFields(@, PaymentUpdate(status, ppid, t))]
               /\ resp' = [op |-> "update_payment_status", code |-> 200,
                           ids |-> {payment_id}, ops |-> 1]
    /\ UNCHANGED <<users, properties, messages, nextId, pc>>

(***************************************************************************)
(* Specification of the Auth group: concurrent registrations, logins and   *)
(* admin status changes, from the empty store.                             *)
(***************************************************************************)
EmptyStore == [o \in {} |-> {}]

Init ==
    /\ users = EmptyStore
    /\ properties = EmptyStore
    /\ messages = EmptyStore
    /\ payments = EmptyStore
    /\ nextId = 1
    /\ pc = [w \in Workers |-> Idle]
    /\ resp = NoResp

RegisterRequests ==
    [full_name : {"Asha"}, email : {"a@x.io", "b@x.io"}, mobile : {"111", "222"},
     password : {"secret"}, role : {"BUYER"}]

LoginRequests == [email : {"a@x.io", "b@x.io"}, password : {"secret", "hunter2"}]

\* Identifier strings a client may present.
IdStrings ==
    {StrOid(GenOid(1)), UpperStr(StrOid(GenOid(1))), StrOid(GenOid(2)),
     EmptyStr, ShortStr, NonHexStr}

NextAuth ==
    \/ \E w \in Workers, req \in RegisterRequests : RegisterFind(w, req)
    \/ \E w \in Workers : RegisterInsert(w)
    \/ \E req \in LoginRequests : Login(req)
    \/ \E id \in IdStrings, s \in {"ACTIVE", "SUSPENDED"}, t \in Times :
          AdminUpdateUserStatus(id, s, t)

SpecAuth == Init /\ [][NextAuth]_vars

(***************************************************************************)
(* Documents stored before a run, and the requests clients send.           *)
(***************************************************************************)
Goa == <<"G", "o", "a">>
Pune == <<"P", "u", "n", "e">>

\* A user registered before the run, and the strings that name it.
User1 ==
    [full_name |-> "Asha", email |-> "a@x.io", mobile |-> "111",
     password_hash |-> Digest("secret"), role |-> "OWNER", status |-> "ACTIVE"]
U1 == StrOid(OldOid(1))
U1Upper == UpperStr(U1)

\* A well-formed identifier that names no document.
Missing == StrOid(OldOid(9))

House ==
    [owner_id |-> U1, title |-> <<"G", "o">>, property_type |-> "HOUSE",
     price |-> 100, city |-> Goa, verified |-> FALSE, status |-> "ACTIVE"]
Plot ==
    [owner_id |-> U1Upper, title |-> <<"U", "p">>, property_type |-> "PLOT",
     price |-> 300, city |-> Pune, verified |-> TRUE, status |-> "INACTIVE"]

\* A property created before the run.
P1 == StrOid(OldOid(2))

\* The identifiers of the documents created in the run.
G1 == StrOid(GenOid(1))
G2 == StrOid(GenOid(2))

InitWith(us, ps) ==
    /\ users = us
    /\ properties = ps
    /\ messages = EmptyStore
    /\ payments = EmptyStore
    /\ nextId = 1
    /\ pc = [w \in Workers |-> Idle]
    /\ resp = NoResp

(***************************************************************************)
(* Specification of the property catalog: one worker creating, and         *)
(* requests reading, updating, verifying and deleting properties, from a   *)
(* store that holds one registered user.                                   *)
(***************************************************************************)
InitCatalog == InitWith(OldOid(1) :> User1, EmptyStore)

CatalogRequests ==
    {House, [House EXCEPT !.owner_id = Missing], [House EXCEPT !.owner_id = ShortStr]}

\* PropertyUpdate bodies: empty, an explicit null, and supplied fields
UpdateBodies ==
    {<<>>, ("price" :> None), ("price" :> Some(300)),
     ("status" :> Some("SOLD")) @@ ("property_type" :> Some("VILLA")) @@ ("city" :> None)}

CatalogIds == {G1, UpperStr(G2), ShortStr}

NextCatalog ==
    \/ \E req \in CatalogRequests : CreatePropertyFind("w1", req)
    \/ CreatePropertyInsert("w1")
    \/ \E id \in CatalogIds : GetProperty(id)
    \/ \E id \in CatalogIds, body \in UpdateBodies, t \in Times : UpdateProperty(id, body, t)
    \/ \E id \in CatalogIds : DeleteProperty(id)
    \/ \E id \in CatalogIds, v \in BOOLEAN, t \in Times : VerifyProperty(id, v, t)

SpecCatalog == InitCatalog /\ [][NextCatalog]_vars

(***************************************************************************)
(* Specification of the property listing: properties are created, updated, *)
(* verified and deleted, and listed under every sort, page and filter of   *)
(* ListParams.                                                             *)
(***************************************************************************)
ListBodies ==
    {("status" :> Some("INACTIVE")), ("status" :> Some("ACTIVE")) @@ ("price" :> Some(300))}

NoFilter ==
    [q |-> None, city |-> None, property_type |-> None, min_price |-> None,
     max_price |-> None, sort |-> "newest", skip |-> 0, limit |-> 20]

ListParams ==
    {[NoFilter EXCEPT !.sort = s, !.skip = k, !.limit = l] :
        s \in {"newest", "price_asc", "price_desc"}, k \in {-1, 1}, l \in {0, 1, 101}}
    \cup {[NoFilter EXCEPT !.q = Some(<<"U", "P">>)],
          [NoFilter EXCEPT !.city = Some(Goa)],
          [NoFilter EXCEPT !.city = Some(<<>>), !.limit = -1],
          [NoFilter EXCEPT !.property_type = Some("PLOT")],
          [NoFilter EXCEPT !.min_price = Some(200)],
          [NoFilter EXCEPT !.max_price = Some(200)],
          [NoFilter EXCEPT !.min_price = Some(100), !.max_price = Some(300),
                           !.q = Some(<<"g", "O">>), !.sort = "price_desc"]}

NextList ==
    \/ \E req \in {House, Plot} : CreatePropertyFind("w1", req)
    \/ CreatePropertyInsert("w1")
    \/ \E id \in {G1, G2}, body \in ListBodies, t \in Times : UpdateProperty(id, body, t)
    \/ \E t \in Times : VerifyProperty(G1, TRUE, t)
    \/ DeleteProperty(G1)
    \/ \E p \in ListParams : ListProperties(p)

SpecList == InitCatalog /\ [][NextList]_vars

(***************************************************************************)
(* Specification of payments: one worker creating payments while status    *)
(* updates arrive, from a store that holds one user and one property.      *)
(***************************************************************************)
InitRefs == InitWith(OldOid(1) :> User1, OldOid(2) :> House)

Pay1 ==
    [buyer_id |-> U1, property_id |-> P1, amount |-> 50,
     provider_payment_id |-> None, status |-> "INITIATED"]
Pay2 == [Pay1 EXCEPT !.buyer_id = U1Upper, !.provider_payment_id = Some("pp2"),
                     !.status = "SUCCESS"]

PaymentRequests ==
    {Pay1, Pay2, [Pay1 EXCEPT !.buyer_id = Missing], [Pay1 EXCEPT !.property_id = Missing],
     [Pay1 EXCEPT !.buyer_id = ShortStr], [Pay1 EXCEPT !.property_id = NonHexStr]}

PaymentStatuses == {"INITIATED", "SUCCESS", "FAILED", "REFUNDED"}

\* provider_payment_id of a status update: absent, empty, a value
ProviderIds == {None, Some(""), Some("pp2")}

\* The payment ids of status updates: the first payment created, a malformed id
PaymentUpdateIds == {G1, ShortStr}

NextPayments ==
    \/ \E req \in PaymentRequests : PaymentFindBuyer("w1", req)
    \/ PaymentFindProperty("w1")
    \/ PaymentInsert("w1")
    \/ \E id \in PaymentUpdateIds, s \in PaymentStatuses, pp \in ProviderIds, t \in Times :
          UpdatePaymentStatus(id, s, pp, t)

SpecPayments == InitRefs /\ [][NextPayments]_vars

(***************************************************************************)
(* Specification of messaging: one worker creating messages while the      *)
(* property they refer to may be deleted.                                  *)
(***************************************************************************)
Msg1 ==
    [sender_id |-> U1, receiver_id |-> U1Upper, property_id |-> None,
     subject |-> "hi", body |-> "hello", is_read |-> FALSE]

MessageRequests ==
    {Msg1,
     [Msg1 EXCEPT !.property_id = Some(P1), !.is_read = TRUE],
     [Msg1 EXCEPT !.property_id = Some(EmptyStr)],
     [Msg1 EXCEPT !.property_id = Some(Missing)],
     [Msg1 EXCEPT !.property_id = Some(ShortStr)],
     [Msg1 EXCEPT !.sender_id = Missing, !.receiver_id = StrOid(OldOid(8))],
     [Msg1 EXCEPT !.receiver_id = Missing],
     [Msg1 EXCEPT !.sender_id = ShortStr],
     [Msg1 EXCEPT !.receiver_id = NonHexStr]}

NextMessages ==
    \/ \E req \in MessageRequests : MessageFindSender("w1", req)
    \/ MessageFindReceiver("w1")
    \/ MessageFindProperty("w1")
    \/ MessageInsert("w1")
    \/ DeleteProperty(P1)

SpecMessages == InitRefs /\ [][NextMessages]_vars

(***************************************************************************)
(* Specification of the references between collections: every endpoint     *)
(* that takes an identifier, with a worker's multi-step create handlers    *)
(* interleaved with the other requests.                                    *)
(***************************************************************************)
RefsMessages ==
    {[Msg1 EXCEPT !.property_id = Some(P1)],
     [Msg1 EXCEPT !.receiver_id = Missing],
     [Msg1 EXCEPT !.sender_id = Missing, !.receiver_id = ShortStr]}

RefsPayments == {Pay1, [Pay1 EXCEPT !.buyer_id = Missing, !.property_id = ShortStr]}

NextRefs ==
    \/ \E req \in {House, [House EXCEPT !.owner_id = ShortStr]} : CreatePropertyFind("w1", req)
    \/ CreatePropertyInsert("w1")
    \/ \E id \in {P1, ShortStr} : GetProperty(id)
    \/ \E id \in {P1, ShortStr}, t \in Times : UpdateProperty(id, "price" :> Some(300), t)
    \/ \E id \in {P1, ShortStr} : DeleteProperty(id)
    \/ \E id \in {P1, ShortStr}, t \in Times : VerifyProperty(id, TRUE, t)
    \/ \E req \in RefsMessages : MessageFindSender("w1", req)
    \/ MessageFindReceiver("w1")
    \/ MessageFindProperty("w1")
    \/ MessageInsert("w1")
    \/ \E req \in RefsPayments : PaymentFindBuyer("w1", req)
    \/ PaymentFindProperty("w1")
    \/ PaymentInsert("w1")
    \/ \E id \in {G1, ShortStr}, t \in Times : UpdatePaymentStatus(id, "SUCCESS", None, t)
    \/ \E id \in {U1, ShortStr}, t \in Times : AdminUpdateUserStatus(id, "SUSPENDED", t)

SpecRefs == InitRefs /\ [][NextRefs]_vars


(***************************************************************************)
(* Properties                                                              *)
(***************************************************************************)
\* An identifier string resolves in a collection when it is well formed and
\* names one of its documents.
Resolves(s, store) == ObjectIdValid(s) /\ ParseOid(s) \in DOMAIN store

\* C1: in every reachable state, under every interleaving of the store reads
\* and writes of concurrent register requests, no two stored users have the
\* same email and no two have the same mobile.
C1_UniqueEmailMobile ==
    \A a, b \in DOMAIN users :
        a # b => users[a].email # users[b].email /\ users[a].mobile # users[b].mobile

\* Two users are stored and a register request that passed its own check lost
\* the race: its insert was refused by the unique index.
C1_Witness ==
    /\ Cardinality(DOMAIN users) = 2
    /\ resp.op = "register" /\ resp.code = 500

\* C2: login answers 401 whenever no ACTIVE user has the email or the digest
\* of the supplied password differs from the stored hash, and otherwise 200
\* with exactly id, full_name, email, mobile, role of that user (never
\* password_hash); so a SUSPENDED user cannot log in until set ACTIVE again.
C2_Login ==
    resp.op = "login" =>
        LET ok == {o \in DOMAIN users :
                     /\ users[o].email = resp.req.email
                     /\ users[o].status = "ACTIVE"
                     /\ users[o].password_hash = Digest(resp.req.password)}
        IN IF ok = {}
           THEN resp.code = 401
           ELSE /\ resp.code = 200
                /\ DOMAIN resp.body = {"id", "full_name", "email", "mobile", "role"}
                /\ \E o \in ok :
                     /\ resp.body.id = StrOid(o)
                     /\ resp.body.full_name = users[o].full_name
                     /\ resp.body.email = users[o].email
                     /\ resp.body.mobile = users[o].mobile
                     /\ resp.body.role = users[o].role

\* A login with the right password is refused because the user is SUSPENDED.
C2_Witness ==
    /\ resp.op = "login" /\ resp.code = 401
    /\ \E o \in DOMAIN users :
         /\ users[o].email = resp.req.email
         /\ users[o].password_hash = Digest(resp.req.password)
         /\ users[o].status = "SUSPENDED"

IdEndpoints ==
    {"create_property", "get_property", "update_property", "delete_property",
     "verify_property", "create_message", "create_payment", "update_payment_status",
     "admin_update_user_status"}

\* C3: for every endpoint that takes an identifier, a request that supplies a
\* malformed identifier is answered 400 with no store operation performed
\* before, whatever its other identifiers are.
C3_MalformedIdRejectedFirst ==
    (resp.op \in IdEndpoints /\ \E s \in resp.ids : ~ObjectIdValid(s))
        => (resp.code = 400 /\ resp.ops = 0)

\* C4: every stored property has status in {ACTIVE, INACTIVE} and
\* property_type in {APARTMENT, HOUSE, PLOT, COMMERCIAL, INDUSTRIAL}.
C4_PropertyEnums ==
    \A o \in DOMAIN properties :
        /\ properties[o].status \in {"ACTIVE", "INACTIVE"}
        /\ properties[o].property_type \in
              {"APARTMENT", "HOUSE", "PLOT", "COMMERCIAL", "INDUSTRIAL"}

\* One more document, and every document there was is as it was.
OneInserted(old, new) ==
    /\ Cardinality(DOMAIN new \ DOMAIN old) = 1
    /\ \A o \in DOMAIN old : o \in DOMAIN new /\ new[o] = old[o]

C5_Step ==
    /\ \A w \in Workers, req \in PaymentRequests :
          (PaymentFindBuyer(w, req) /\ ObjectIdValid(req.buyer_id)
              /\ ~Resolves(req.buyer_id, users))
            => (resp'.op = "create_payment" /\ resp'.code = 404 /\ payments' = payments)
    /\ \A w \in Workers :
          (PaymentFindProperty(w) /\ ObjectIdValid(pc[w].req.property_id)
              /\ ~Resolves(pc[w].req.property_id, properties))
            => (resp'.op = "create_payment" /\ resp'.code = 404 /\ payments' = payments)
    /\ \A w \in Workers :
          PaymentInsert(w)
            => /\ resp'.code = 200
               /\ OneInserted(payments, payments')
               /\ \A o \in DOMAIN payments' \ DOMAIN payments :
                     payments'[o].status = "INITIATED"
    /\ (resp'.op = "create_payment" /\ resp'.code # 200) => payments' = payments

\* C5: create_payment answers 404 and stores nothing when buyer_id or
\* property_id resolves to nothing; otherwise it stores exactly one new
\* payment, whose status is INITIATED whatever the accepted body says.
C5_CreatePayment == [][C5_Step]_vars

C6_Step ==
    \A id \in CatalogIds, body \in UpdateBodies, t \in Times :
        (resp'.op = "update_property" /\ id \in resp'.ids
            /\ UpdateProperty(id, body, t)) =>
            LET supplied == {f \in DOMAIN body : body[f] # None}
                oid == to_object_id(id)
            IN /\ supplied = {} => (resp'.code = 400 /\ properties' = properties)
               /\ (supplied # {} /\ oid # None /\ TheVal(oid) \notin DOMAIN properties)
                     => (resp'.code = 404 /\ properties' = properties)
               /\ resp'.code # 200 => properties' = properties
               /\ resp'.code = 200 =>
                     /\ oid # None
                     /\ TheVal(oid) \in DOMAIN properties
                     /\ DOMAIN properties' = DOMAIN properties
                     /\ \A x \in DOMAIN properties \ {TheVal(oid)} :
                           properties'[x] = properties[x]
                     /\ LET old == properties[TheVal(oid)]
                            new == properties'[TheVal(oid)]
                        IN /\ DOMAIN new = DOMAIN old \cup supplied \cup {"updated_at"}
                           /\ \A f \in supplied : new[f] = TheVal(body[f])
                           /\ new.updated_at = t
                           /\ \A f \in DOMAIN old \ (supplied \cup {"updated_at"}) :
                                 new[f] = old[f]
               /\ UNCHANGED <<users, messages, payments>>

\* C6: update_property answers 400 when no field is supplied and 404 when a
\* well-formed id matches no property, the store unchanged in both cases; on
\* success it changes, in the one matched property, exactly the supplied
\* (non-null) fields and updated_at, and leaves every other field (owner_id
\* and verified included) and every other document unchanged.
C6_UpdateProperty == [][C6_Step]_vars

\* An update succeeded on a verified property while another property is
\* stored: the price is the supplied one, verified is kept.
C6_Witness ==
    /\ resp.op = "update_property" /\ resp.code = 200
    /\ Cardinality(DOMAIN properties) = 2
    /\ \E o \in DOMAIN properties :
         /\ StrOid(o) \in resp.ids
         /\ properties[o].price = 300
         /\ properties[o].verified
         /\ properties[o].owner_id = U1
         /\ properties[o].status = "ACTIVE"

\* C7: list_properties never returns a property whose status is INACTIVE,
\* whatever the filters, sort and page, and it returns at most
\* min(max(1, limit), 100) items.
C7_ListProperties ==
    resp.op = "list_properties" =>
        /\ \A i \in 1..Len(resp.body.items) : resp.body.items[i].status # "INACTIVE"
        /\ Len(resp.body.items) <= Min(Max(1, resp.limit), 100)
        /\ resp.body.count = Len(resp.body.items)

\* The store holds an INACTIVE property and the listing, asked for limit 0,
\* returns exactly one item.
C7_Witness ==
    /\ resp.op = "list_properties"
    /\ resp.limit = 0
    /\ Len(resp.body.items) = 1
    /\ \E o \in DOMAIN properties : properties[o].status = "INACTIVE"

C8_Step ==
    \A id \in PaymentUpdateIds, s \in PaymentStatuses, pp \in ProviderIds, t \in Times :
        (resp'.op = "update_payment_status" /\ id \in resp'.ids
            /\ UpdatePaymentStatus(id, s, pp, t)) =>
            LET oid == to_object_id(id)
            IN /\ (oid # None /\ TheVal(oid) \notin DOMAIN payments)
                     => (resp'.code = 404 /\ payments' = payments)
               /\ resp'.code # 200 => payments' = payments
               /\ (oid # None /\ TheVal(oid) \in DOMAIN payments) =>
                     /\ resp'.code = 200
                     /\ DOMAIN payments' = DOMAIN payments
                     /\ \A x \in DOMAIN payments \ {TheVal(oid)} : payments'[x] = payments[x]
                     /\ LET old == payments[TheVal(oid)]
                            new == payments'[TheVal(oid)]
                        IN /\ DOMAIN new = DOMAIN old \cup {"updated_at"}
                           /\ new.status = s
                           /\ new.updated_at = t
                           /\ new.provider_payment_id =
                                 (IF pp # None /\ TheVal(pp) # "" THEN pp
                                  ELSE old.provider_payment_id)
                           /\ \A f \in DOMAIN old \ {"status", "updated_at",
                                                     "provider_payment_id"} :
                                 new[f] = old[f]
               /\ UNCHANGED <<users, properties, messages>>

\* C8: update_payment_status answers 404 and changes nothing when the id
\* matches no payment; otherwise, from any current status, it sets status and
\* updated_at, sets provider_payment_id only when a non-empty value is
\* supplied, and leaves every other field and document unchanged.
C8_UpdatePaymentStatus == [][C8_Step]_vars

\* A payment created as SUCCESS with a provider id was set back to INITIATED
\* and kept its provider id.
C8_Witness ==
    /\ resp.op = "update_payment_status" /\ resp.code = 200
    /\ Cardinality(DOMAIN payments) = 2
    /\ \E o \in DOMAIN payments :
         /\ StrOid(o) \in resp.ids
         /\ payments[o].buyer_id = U1Upper
         /\ payments[o].status = "INITIATED"
         /\ payments[o].provider_payment_id = Some("pp2")
         /\ "updated_at" \in DOMAIN payments[o]

C9_Step ==
    /\ \A w \in Workers, req \in MessageRequests :
          (MessageFindSender(w, req) /\ ObjectIdValid(req.sender_id)
              /\ ~Resolves(req.sender_id, users))
            => (resp'.code = 404 /\ resp'.detail = req.sender_id /\ messages' = messages)
    /\ \A w \in Workers :
          (MessageFindReceiver(w) /\ ObjectIdValid(pc[w].req.receiver_id)
              /\ ~Resolves(pc[w].req.receiver_id, users))
            => (resp'.code = 404 /\ resp'.detail = pc[w].req.receiver_id
                  /\ messages' = messages)
    /\ \A w \in Workers :
          (MessageFindReceiver(w) /\ pc'[w].op = "create_message" /\ pc'[w].at = "insert")
            => pc[w].req.property_id = None
    /\ \A w \in Workers :
          (MessageFindProperty(w) /\ ObjectIdValid(TheVal(pc[w].req.property_id))
              /\ ~Resolves(TheVal(pc[w].req.property_id), properties))
            => (resp'.code = 404 /\ messages' = messages)
    /\ \A w \in Workers :
          MessageInsert(w)
            => /\ resp'.code = 200
               /\ OneInserted(messages, messages')
               /\ \A o \in DOMAIN messages' \ DOMAIN messages :
                     messages'[o].is_read = FALSE
    /\ (resp'.op = "create_message" /\ resp'.code # 200) => messages' = messages

\* C9: create_message answers 404 and stores nothing when sender_id or
\* receiver_id resolves to no user (naming the missing id, sender first) or a
\* supplied property_id resolves to no property; otherwise it stores exactly
\* one new message, with is_read = false whatever the accepted body says.
C9_CreateMessage == [][C9_Step]_vars

\* C10: no interleaving leaves a reference to a user that does not resolve
\* (property owner_id, payment buyer_id, message sender_id and receiver_id),
\* because no operation removes a user; a reference to a property can be
\* left dangling by a delete_property between a create handler's check and
\* its insert.
C10_NoOrphanUserRef ==
    /\ \A o \in DOMAIN properties : Resolves(properties[o].owner_id, users)
    /\ \A o \in DOMAIN payments : Resolves(payments[o].buyer_id, users)
    /\ \A o \in DOMAIN messages :
          /\ Resolves(messages[o].sender_id, users)
          /\ Resolves(messages[o].receiver_id, users)

\* create_payment has just inserted a payment whose property was deleted
\* after the handler's check.
C10_Witness ==
    /\ resp.op = "create_payment" /\ resp.code = 200
    /\ \E o \in DOMAIN payments :
         /\ StrOid(o) = resp.id
         /\ ObjectIdValid(payments[o].property_id)
         /\ ~Resolves(payments[o].property_id, properties)


====
